---- MODULE Spec2Model ----
(***************************************************************************)
(* Model of one diagnostic session of main.py.                             *)
(*                                                                         *)
(* main() awaits orchestrator_agent.run().  The orchestrator is an agent   *)
(* whose language model chooses which registered tool (hypothesize,        *)
(* request_tests, debate, reach_consensus) to call next and when to emit   *)
(* its FinalDecision.  The order it is asked to follow is given only as    *)
(* text in system_prompt; no statement of main.py checks it.  The          *)
(* orchestrator's choices are therefore modelled as nondeterministic: any  *)
(* tool may be called whenever no tool is running, and any output may be   *)
(* proposed, of which the output_type validation accepts the well-formed   *)
(* ones.  Tools called by the orchestrator run one at a time.  An          *)
(* exception leaving a tool leaves orchestrator_agent.run() as well.       *)
(*                                                                         *)
(* Probabilities are integers in hundredths (0.95 is 95).                  *)
(***************************************************************************)
EXTENDS Integers, Sequences, FiniteSets, TLC

\* ---- bounds ----
MaxCalls == 4        \* tool calls the orchestrator makes in one session
MaxHyps == 1         \* length of the list a hypothesis agent returns
MaxTests == 1        \* length of the list the test chooser returns
MaxOut == 1          \* distinct outputs a debate sub-call may return
MaxLiveCalls == 3    \* tool calls in one session of the fair specification

\* ---- constants of the program ----
CertaintyThreshold == 95
MinProbability == 0
MaxProbability == 100

Tools == {"hypothesize", "request_tests", "debate", "reach_consensus"}
SimpleTools == {"hypothesize", "request_tests", "reach_consensus"}
SubCalls == <<"challenger", "stewardship", "checklist">>
SubNames == {SubCalls[i] : i \in 1..3}

\* ---- values the language models may send back ----
Conditions == {"pneumonia"}
TestNames == {"xray"}
RawProbabilities == {-1, 60, 95, 101}
FieldNames == {"condition", "probability", "test_name"}

None == [type |-> "None"]

\* An object as a model sends it: the fields present and their values.
RawObjects ==
    [fields : SUBSET FieldNames, condition : Conditions,
     probability : RawProbabilities, test_name : TestNames]

\* Mutant: the bounds on probability are not checked.
IsDiagnosisAnyProbability(raw) == {"condition", "probability"} \subseteq raw.fields

\* class Diagnosis: condition and probability are required, 0 <= p <= 1.
IsDiagnosis(raw) ==
    /\ {"condition", "probability"} \subseteq raw.fields
    /\ raw.probability >= MinProbability
    /\ raw.probability <= MaxProbability

\* class TestRequest: test_name is required.
IsTestRequest(raw) == "test_name" \in raw.fields

MkDiagnosis(raw) ==
    [type |-> "Diagnosis", condition |-> raw.condition,
     probability |-> raw.probability]

MkTestRequest(raw) == [type |-> "TestRequest", test_name |-> raw.test_name]

\* Validation against Diagnosis | TestRequest: the members are tried, an
\* object that fits Diagnosis becomes a Diagnosis, otherwise one that fits
\* TestRequest becomes a TestRequest, otherwise validation fails (None).
ValidateAction(raw) ==
    IF IsDiagnosis(raw) THEN MkDiagnosis(raw)
    ELSE IF IsTestRequest(raw) THEN MkTestRequest(raw)
    ELSE None

\* What a hypothesis agent may send for one list element: a condition, with
\* or without a probability.
RawHypotheses ==
    {r \in RawObjects : "condition" \in r.fields /\ "test_name" \notin r.fields}

\* What the test chooser may send for one list element: a test name or not.
RawTests ==
    {r \in RawObjects : r.fields \subseteq {"test_name"} /\ r.probability = 60}

\* Sequences over S of length at most n.
SeqUpTo(S, n) == UNION {[1..k -> S] : k \in 0..n}

\* Mutant: an empty list is rejected.
ValidDiagnosisListNonEmpty(raws) ==
    /\ Len(raws) > 0
    /\ \A i \in 1..Len(raws) : IsDiagnosis(raws[i])

\* Validation against list[Diagnosis]: every element must be a Diagnosis.
ValidDiagnosisList(raws) == \A i \in 1..Len(raws) : IsDiagnosis(raws[i])
DiagnosisList(raws) == [i \in 1..Len(raws) |-> MkDiagnosis(raws[i])]

\* Validation against list[TestRequest].
ValidTestList(raws) == \A i \in 1..Len(raws) : IsTestRequest(raws[i])
TestList(raws) == [i \in 1..Len(raws) |-> MkTestRequest(raws[i])]

VARIABLES
    mainpc,         \* main(): "await", "exit_ok", "exit_err"
    run,            \* orchestrator_agent.run(): "running", "returned", "raised"
    active,         \* the tool being executed, or "none"
    stpc,           \* position inside a simple tool: "idle", "render", "agent"
    trace,          \* tools invoked so far, in order
    hyps,           \* list returned by the last hypothesize
    tests,          \* list returned by the last request_tests
    sub,            \* per debate sub-call: "idle","render","agent","ok","failed","cancelled"
    subOut,         \* per debate sub-call: its output, or None
    doneOrder,      \* debate sub-calls that returned, in order of completion
    failOrder,      \* debate sub-calls that raised, in order of failure
    debateResults,  \* DebateResults returned by the last debate, or None
    consensus,      \* action returned by the last reach_consensus, or None
    final,          \* FinalDecision returned by the run, or None
    failedStage,    \* the stage whose exception ended the run, or "none"
    logs,           \* lines written by main() and the tools' except blocks
    failure,        \* the exception that left orchestrator_agent.run(), or None
    subErr,         \* per debate sub-call: the exception it raised, or None
    rendered,       \* per tool and sub-call: its prompt has been rendered
    agentRuns,      \* per tool and sub-call: agent runs started in this call
    debateArgs      \* hypotheses and test_requests held by the running debate

vars == <<mainpc, run, active, stpc, trace, hyps, tests, sub, subOut,
          doneOrder, failOrder, debateResults, consensus, final, failedStage,
          logs, failure, subErr, rendered, agentRuns, debateArgs>>

debateVars == <<sub, subOut, doneOrder, failOrder>>
dataVars == <<hyps, tests, debateResults, consensus, final>>
callVars == <<rendered, agentRuns, debateArgs>>
excVars == <<failure, subErr>>

\* The stages and sub-calls that render a prompt and run an agent.
Units == SimpleTools \cup SubNames

\* An exception: its kind, the stage or sub-call that raised it, and for a
\* validation error what was found wrong.
Exc(kind, origin, detail) ==
    [type |-> "Exception", kind |-> kind, origin |-> origin, detail |-> detail]

\* What validation reports for an object that is no Diagnosis.
DiagnosisError(raw) ==
    IF {"condition", "probability"} \subseteq raw.fields
    THEN "probability out of range"
    ELSE "field required"

DiagnosisListErrors(raws) ==
    {DiagnosisError(raws[i]) : i \in {j \in 1..Len(raws) : ~IsDiagnosis(raws[j])}}

\* What validation reports for an object that fits neither member.
ActionErrors(raw) == {DiagnosisError(raw), "field required"}

Init ==
    /\ mainpc = "await"
    /\ run = "running"
    /\ active = "none"
    /\ stpc = "idle"
    /\ trace = <<>>
    /\ hyps = <<>>
    /\ tests = <<>>
    /\ sub = [s \in SubNames |-> "idle"]
    /\ subOut = [s \in SubNames |-> None]
    /\ doneOrder = <<>>
    /\ failOrder = <<>>
    /\ debateResults = None
    /\ consensus = None
    /\ final = None
    /\ failedStage = "none"
    /\ logs = {}
    /\ failure = None
    /\ subErr = [s \in SubNames |-> None]
    /\ rendered = [u \in Units |-> FALSE]
    /\ agentRuns = [u \in Units |-> 0]
    /\ debateArgs = None

\* ---- the orchestrator calls a tool ----

CanAct == mainpc = "await" /\ run = "running" /\ active = "none"

\* @orchestrator_agent.tool hypothesize / request_tests / reach_consensus:
\* the orchestrator's model asks for the tool; its body starts at render.
CallTool(t) ==
    /\ CanAct
    /\ t \in SimpleTools
    /\ Len(trace) < MaxCalls
    /\ active' = t
    /\ stpc' = "render"
    /\ trace' = Append(trace, t)
    /\ rendered' = [rendered EXCEPT ![t] = FALSE]
    /\ agentRuns' = [agentRuns EXCEPT ![t] = 0]
    /\ UNCHANGED <<mainpc, run, failedStage, logs, debateArgs>>
    /\ UNCHANGED dataVars
    /\ UNCHANGED debateVars
    /\ UNCHANGED excVars

\* Mutant: the except block logs and the run goes on.
StageRaiseRecovered(t) ==
    /\ logs' = logs \cup {<<"error", t>>}
    /\ failedStage' = t
    /\ active' = "none"
    /\ stpc' = "idle"
    /\ UNCHANGED <<mainpc, run, trace>>
    /\ UNCHANGED dataVars

\* except Exception as e: log.error(...); raise -- the exception leaves the
\* tool and orchestrator_agent.run().
StageRaise(t) ==
    /\ logs' = logs \cup {<<"error", t>>}
    /\ failedStage' = t
    /\ run' = "raised"
    /\ active' = "none"
    /\ stpc' = "idle"
    /\ UNCHANGED <<mainpc, trace>>
    /\ UNCHANGED dataVars

\* deps.template_manager.render(...) returns the prompt; the agent is
\* built and <agent>.run(prompt) is awaited.
Render ==
    /\ mainpc = "await"
    /\ active \in SimpleTools
    /\ stpc = "render"
    /\ stpc' = "agent"
    /\ rendered' = [rendered EXCEPT ![active] = TRUE]
    /\ agentRuns' = [agentRuns EXCEPT ![active] = @ + 1]
    /\ UNCHANGED debateArgs
    /\ UNCHANGED excVars
    /\ UNCHANGED <<mainpc, run, active, trace, failedStage, logs>>
    /\ UNCHANGED dataVars
    /\ UNCHANGED debateVars

\* Mutant: when render raises, the agent is run all the same.
RenderFailFallback ==
    /\ mainpc = "await"
    /\ active \in SimpleTools
    /\ stpc = "render"
    /\ stpc' = "agent"
    /\ agentRuns' = [agentRuns EXCEPT ![active] = @ + 1]
    /\ logs' = logs \cup {<<"error", active>>}
    /\ UNCHANGED <<mainpc, run, active, trace, failedStage, rendered, debateArgs>>
    /\ UNCHANGED dataVars
    /\ UNCHANGED debateVars
    /\ UNCHANGED excVars

\* deps.template_manager.render(...) raises (get_template or render).
RenderFail ==
    /\ mainpc = "await"
    /\ active \in SimpleTools
    /\ stpc = "render"
    /\ StageRaise(active)
    /\ failure' = Exc("TemplateError", active, {})
    /\ UNCHANGED subErr
    /\ UNCHANGED callVars
    /\ UNCHANGED debateVars

\* Mutant: when the agent raises, the stage starts again from render.
AgentFailRetry ==
    /\ mainpc = "await"
    /\ active \in SimpleTools
    /\ stpc = "agent"
    /\ stpc' = "render"
    /\ rendered' = [rendered EXCEPT ![active] = FALSE]
    /\ agentRuns' = [agentRuns EXCEPT ![active] = 0]
    /\ logs' = logs \cup {<<"error", active>>}
    /\ UNCHANGED <<mainpc, run, active, trace, failedStage, debateArgs>>
    /\ UNCHANGED dataVars
    /\ UNCHANGED debateVars
    /\ UNCHANGED excVars

\* await <agent>.run(prompt) raises: transport failure, rate limit.
AgentFail ==
    /\ mainpc = "await"
    /\ active \in SimpleTools
    /\ stpc = "agent"
    /\ StageRaise(active)
    /\ failure' = Exc("ModelInvocationError", active, {})
    /\ UNCHANGED subErr
    /\ UNCHANGED callVars
    /\ UNCHANGED debateVars

ToolReturns ==
    /\ active' = "none"
    /\ stpc' = "idle"
    /\ UNCHANGED <<mainpc, run, trace, failedStage, logs>>
    /\ UNCHANGED debateVars
    /\ UNCHANGED callVars
    /\ UNCHANGED excVars

\* hypothesize: result = await hypothesis_agent.run(prompt) with
\* output_type=list[Diagnosis]; return result.output.
HypothesizeAgent(raws) ==
    /\ mainpc = "await"
    /\ active = "hypothesize"
    /\ stpc = "agent"
    /\ IF ValidDiagnosisList(raws)
       THEN /\ hyps' = DiagnosisList(raws)
            /\ ToolReturns
            /\ UNCHANGED <<tests, debateResults, consensus, final>>
       ELSE /\ StageRaise("hypothesize")
            /\ failure' = Exc("OutputValidationError", "hypothesize", DiagnosisListErrors(raws))
            /\ UNCHANGED subErr
            /\ UNCHANGED callVars
            /\ UNCHANGED debateVars

\* request_tests: output_type=list[TestRequest]; return result.output.
RequestTestsAgent(raws) ==
    /\ mainpc = "await"
    /\ active = "request_tests"
    /\ stpc = "agent"
    /\ IF ValidTestList(raws)
       THEN /\ tests' = TestList(raws)
            /\ ToolReturns
            /\ UNCHANGED <<hyps, debateResults, consensus, final>>
       ELSE /\ StageRaise("request_tests")
            /\ failure' = Exc("OutputValidationError", "request_tests", {"field required"})
            /\ UNCHANGED subErr
            /\ UNCHANGED callVars
            /\ UNCHANGED debateVars

\* reach_consensus: output_type=Diagnosis | TestRequest; return result.output.
ReachConsensusAgent(raw) ==
    /\ mainpc = "await"
    /\ active = "reach_consensus"
    /\ stpc = "agent"
    /\ IF ValidateAction(raw) # None
       THEN /\ consensus' = ValidateAction(raw)
            /\ ToolReturns
            /\ UNCHANGED <<hyps, tests, debateResults, final>>
       ELSE /\ StageRaise("reach_consensus")
            /\ failure' = Exc("OutputValidationError", "reach_consensus", ActionErrors(raw))
            /\ UNCHANGED subErr
            /\ UNCHANGED callVars
            /\ UNCHANGED debateVars

\* ---- debate ----

OutputType(s) ==
    CASE s = "challenger" -> "ChallengerCritique"
      [] s = "stewardship" -> "StewardshipAdvice"
      [] s = "checklist" -> "QualityCheck"

\* What the agent of sub-call s may return (validated against its type).
SubOutputs(s) == [type : {OutputType(s)}, v : 1..MaxOut]

\* debate(hypotheses, test_requests): log.info; asyncio.gather(
\* run_challenger(), run_stewardship(), run_checklist()) starts the three
\* coroutines together.  The arguments are the lists the orchestrator's
\* model last received from hypothesize and request_tests.
CallDebate(h, t) ==
    /\ CanAct
    /\ Len(trace) < MaxCalls
    /\ active' = "debate"
    /\ trace' = Append(trace, "debate")
    /\ sub' = [s \in SubNames |-> "render"]
    /\ subOut' = [s \in SubNames |-> None]
    /\ doneOrder' = <<>>
    /\ failOrder' = <<>>
    /\ subErr' = [s \in SubNames |-> None]
    /\ rendered' = [u \in Units |-> IF u \in SubNames THEN FALSE ELSE rendered[u]]
    /\ agentRuns' = [u \in Units |-> IF u \in SubNames THEN 0 ELSE agentRuns[u]]
    /\ debateArgs' = [type |-> "DebateArgs", hypotheses |-> h, test_requests |-> t]
    /\ UNCHANGED <<mainpc, run, stpc, failedStage, logs, failure>>
    /\ UNCHANGED dataVars

\* Mutant: rendering empties the test_requests list it is given.
SubRenderMutating(s) ==
    /\ mainpc = "await"
    /\ sub[s] = "render"
    /\ sub' = [sub EXCEPT ![s] = "agent"]
    /\ rendered' = [rendered EXCEPT ![s] = TRUE]
    /\ agentRuns' = [agentRuns EXCEPT ![s] = @ + 1]
    /\ debateArgs' = [debateArgs EXCEPT !.test_requests = <<>>]
    /\ UNCHANGED <<mainpc, run, active, stpc, trace, failedStage, logs>>
    /\ UNCHANGED <<subOut, doneOrder, failOrder>>
    /\ UNCHANGED dataVars
    /\ UNCHANGED excVars

\* A sub-call's steps are taken while the event loop of main() is alive;
\* gather does not cancel the siblings of a sub-call that raised.
\* run_<s>: prompt = deps.template_manager.render(...) succeeds.
SubRender(s) ==
    /\ mainpc = "await"
    /\ sub[s] = "render"
    /\ sub' = [sub EXCEPT ![s] = "agent"]
    /\ rendered' = [rendered EXCEPT ![s] = TRUE]
    /\ agentRuns' = [agentRuns EXCEPT ![s] = @ + 1]
    /\ UNCHANGED <<mainpc, run, active, stpc, trace, failedStage, logs>>
    /\ UNCHANGED <<subOut, doneOrder, failOrder, debateArgs>>
    /\ UNCHANGED dataVars
    /\ UNCHANGED excVars

\* run_<s>: render or the agent raises; except: log.error(...); raise.
SubFail(s) ==
    /\ mainpc = "await"
    /\ sub[s] \in {"render", "agent"}
    /\ sub' = [sub EXCEPT ![s] = "failed"]
    /\ failOrder' = Append(failOrder, s)
    /\ logs' = logs \cup {<<"error", s>>}
    /\ subErr' = [subErr EXCEPT ![s] =
                     Exc(IF sub[s] = "render" THEN "TemplateError"
                         ELSE "ModelInvocationError", s, {})]
    /\ UNCHANGED <<mainpc, run, active, stpc, trace, failedStage, failure>>
    /\ UNCHANGED <<subOut, doneOrder>>
    /\ UNCHANGED dataVars
    /\ UNCHANGED callVars

\* run_<s>: return await <s>_agent.run(prompt).
SubAgent(s, out) ==
    /\ mainpc = "await"
    /\ sub[s] = "agent"
    /\ sub' = [sub EXCEPT ![s] = "ok"]
    /\ subOut' = [subOut EXCEPT ![s] = out]
    /\ doneOrder' = Append(doneOrder, s)
    /\ UNCHANGED <<mainpc, run, active, stpc, trace, failedStage, logs>>
    /\ UNCHANGED failOrder
    /\ UNCHANGED dataVars
    /\ UNCHANGED callVars
    /\ UNCHANGED excVars

\* Mutant: the results in the order the sub-calls completed.
GatherResultsByCompletion ==
    [i \in 1..3 |-> IF i <= Len(doneOrder) THEN subOut[doneOrder[i]] ELSE None]

\* results = await asyncio.gather(...): the list of the awaitables' results
\* in the order the awaitables were passed.
GatherResults == [i \in 1..3 |-> subOut[SubCalls[i]]]

\* critique, advice, checks = results[0].output, results[1].output,
\* results[2].output; return DebateResults(challenger_critique=critique,
\* stewardship_advice=advice, quality_checks=checks).
MakeDebateResults(results) ==
    [type |-> "DebateResults",
     challenger_critique |-> results[1],
     stewardship_advice |-> results[2],
     quality_checks |-> results[3]]

\* Mutant: gather returns once every awaitable has ended, raised or not.
GatherDoneOrFailed == \A s \in SubNames : sub[s] \in {"ok", "failed"}

\* gather returns once every awaitable has returned.
GatherDone == \A s \in SubNames : sub[s] = "ok"

\* gather raises once an awaitable has raised.
GatherRaised == failOrder # <<>>

DebateReturn ==
    /\ mainpc = "await"
    /\ active = "debate"
    /\ GatherDone
    /\ debateResults' = MakeDebateResults(GatherResults)
    /\ active' = "none"
    /\ UNCHANGED <<mainpc, run, stpc, trace, failedStage, logs>>
    /\ debateArgs' = None
    /\ UNCHANGED <<hyps, tests, consensus, final>>
    /\ UNCHANGED debateVars
    /\ UNCHANGED <<rendered, agentRuns>>
    /\ UNCHANGED excVars

\* Mutant: the exception of the failed sub-call that comes first in the
\* order the awaitables were passed.
GatherExceptionPositional ==
    subErr[SubCalls[CHOOSE i \in 1..3 :
                      /\ sub[SubCalls[i]] = "failed"
                      /\ \A j \in 1..(i - 1) : sub[SubCalls[j]] # "failed"]]

\* await asyncio.gather(...) raises the first exception raised by one of
\* the awaitables.
GatherException == subErr[Head(failOrder)]

\* Mutant: the siblings still running are cancelled when debate raises.
DebateRaiseCancelling ==
    /\ mainpc = "await"
    /\ active = "debate"
    /\ GatherRaised
    /\ StageRaise("debate")
    /\ failure' = GatherException
    /\ sub' = [s \in SubNames |->
                 IF sub[s] \in {"render", "agent"} THEN "cancelled" ELSE sub[s]]
    /\ UNCHANGED <<subOut, doneOrder, failOrder, subErr>>
    /\ UNCHANGED callVars

\* except Exception as e: log.error("Error in debate tool ..."); raise.
DebateRaise ==
    /\ mainpc = "await"
    /\ active = "debate"
    /\ GatherRaised
    /\ StageRaise("debate")
    /\ failure' = GatherException
    /\ UNCHANGED subErr
    /\ UNCHANGED callVars
    /\ UNCHANGED debateVars

\* ---- the orchestrator's output and main() ----

\* What the orchestrator's model may send as its final output.
RawDecisions == [hasAction : BOOLEAN, action : RawObjects]

\* Mutant: the output is returned without validating its action.
ValidateDecisionUnchecked(raw) ==
    [type |-> "FinalDecision",
     action |-> IF raw.hasAction THEN ValidateAction(raw.action) ELSE None]

\* class FinalDecision: action is required and is a Diagnosis | TestRequest.
ValidateDecision(raw) ==
    IF raw.hasAction /\ ValidateAction(raw.action) # None
    THEN [type |-> "FinalDecision", action |-> ValidateAction(raw.action)]
    ELSE None

\* orchestrator_agent with output_type=FinalDecision: the run returns an
\* output that validates, and raises when the model gives none that does.
OrchestratorOutput(raw) ==
    /\ CanAct
    /\ IF ValidateDecision(raw) # None
       THEN /\ final' = ValidateDecision(raw)
            /\ run' = "returned"
            /\ UNCHANGED <<failedStage, failure>>
       ELSE /\ run' = "raised"
            /\ failedStage' = "orchestrator"
            /\ failure' = Exc("OutputValidationError", "orchestrator", {})
            /\ UNCHANGED final
    /\ UNCHANGED <<mainpc, active, stpc, trace, logs>>
    /\ UNCHANGED <<hyps, tests, debateResults, consensus>>
    /\ UNCHANGED debateVars
    /\ UNCHANGED callVars
    /\ UNCHANGED subErr

\* The orchestrator's own model call raises.
OrchestratorError ==
    /\ CanAct
    /\ run' = "raised"
    /\ failedStage' = "orchestrator"
    /\ failure' = Exc("ModelInvocationError", "orchestrator", {})
    /\ UNCHANGED <<mainpc, active, stpc, trace, logs>>
    /\ UNCHANGED dataVars
    /\ UNCHANGED debateVars
    /\ UNCHANGED callVars
    /\ UNCHANGED subErr

\* main(): the run returned; log the conclusion and the decision.
MainReturn ==
    /\ mainpc = "await"
    /\ run = "returned"
    /\ logs' = logs \cup {<<"info", "conclusion">>, <<"info", "decision">>}
    /\ mainpc' = "exit_ok"
    /\ UNCHANGED <<run, active, stpc, trace, failedStage>>
    /\ UNCHANGED dataVars
    /\ UNCHANGED debateVars
    /\ UNCHANGED callVars
    /\ UNCHANGED excVars

\* Mutant: the failure is logged and main() returns normally.
MainExceptSwallowed ==
    /\ mainpc = "await"
    /\ run = "raised"
    /\ logs' = logs \cup {<<"error", "failed_after">>}
    /\ mainpc' = "exit_ok"
    /\ sub' = [s \in SubNames |->
                 IF sub[s] \in {"render", "agent"} THEN "cancelled" ELSE sub[s]]
    /\ UNCHANGED <<run, active, stpc, trace, failedStage>>
    /\ UNCHANGED <<subOut, doneOrder, failOrder>>
    /\ UNCHANGED dataVars
    /\ UNCHANGED callVars
    /\ UNCHANGED excVars

\* main(): except Exception: log.error("Diagnostic process failed after
\* ..."); raise.  asyncio.run then cancels the tasks still pending.
MainExcept ==
    /\ mainpc = "await"
    /\ run = "raised"
    /\ logs' = logs \cup {<<"error", "failed_after">>}
    /\ mainpc' = "exit_err"
    /\ sub' = [s \in SubNames |->
                 IF sub[s] \in {"render", "agent"} THEN "cancelled" ELSE sub[s]]
    /\ UNCHANGED <<run, active, stpc, trace, failedStage>>
    /\ UNCHANGED <<subOut, doneOrder, failOrder>>
    /\ UNCHANGED dataVars
    /\ UNCHANGED callVars
    /\ UNCHANGED excVars

Next ==
    \/ \E t \in SimpleTools : CallTool(t)
    \/ Render
    \/ RenderFail
    \/ AgentFail
    \/ \E raws \in SeqUpTo(RawHypotheses, MaxHyps) : HypothesizeAgent(raws)
    \/ \E raws \in SeqUpTo(RawTests, MaxTests) : RequestTestsAgent(raws)
    \/ \E raw \in RawObjects : ReachConsensusAgent(raw)
    \/ \E h \in {hyps} : \E t \in {tests} : CallDebate(h, t)
    \/ \E s \in SubNames : SubRender(s)
    \/ \E s \in SubNames : SubFail(s)
    \/ \E s \in SubNames : \E out \in SubOutputs(s) : SubAgent(s, out)
    \/ DebateReturn
    \/ DebateRaise
    \/ \E raw \in RawDecisions : OrchestratorOutput(raw)
    \/ OrchestratorError
    \/ MainReturn
    \/ MainExcept

Spec == Init /\ [][Next]_vars

\* A step of the orchestrator's model: a tool call, an output or an error.
OrchestratorStep ==
    \/ \E t \in SimpleTools : CallTool(t)
    \/ \E h \in {hyps} : \E t \in {tests} : CallDebate(h, t)
    \/ \E raw \in RawDecisions : OrchestratorOutput(raw)
    \/ OrchestratorError

\* A step of the simple tool that is running: its render or its agent
\* returns or raises.
StageStep ==
    \/ Render
    \/ RenderFail
    \/ AgentFail
    \/ \E raws \in SeqUpTo(RawHypotheses, MaxHyps) : HypothesizeAgent(raws)
    \/ \E raws \in SeqUpTo(RawTests, MaxTests) : RequestTestsAgent(raws)
    \/ \E raw \in RawObjects : ReachConsensusAgent(raw)

\* A step of debate sub-call s.
SubStep(s) ==
    \/ SubRender(s)
    \/ SubFail(s)
    \/ \E out \in SubOutputs(s) : SubAgent(s, out)

\* The sessions with at most MaxLiveCalls tool calls.
LiveNext == Next /\ Len(trace') <= MaxLiveCalls

\* Every render and every agent run eventually returns or raises, the
\* orchestrator's model eventually answers, and a coroutine is resumed once
\* what it awaits is done.
Fairness ==
    /\ WF_vars(OrchestratorStep /\ Len(trace') <= MaxLiveCalls)
    /\ WF_vars(StageStep)
    /\ \A s \in SubNames : WF_vars(SubStep(s))
    /\ WF_vars(DebateReturn)
    /\ WF_vars(DebateRaise)
    /\ WF_vars(MainReturn)
    /\ WF_vars(MainExcept)

SpecLive == Init /\ [][LiveNext]_vars /\ Fairness

TypeOK ==
    /\ mainpc \in {"await", "exit_ok", "exit_err"}
    /\ run \in {"running", "returned", "raised"}
    /\ active \in Tools \cup {"none"}
    /\ Len(trace) <= MaxCalls

\* ---- what the claims speak about ----

Downstream == {"request_tests", "debate", "reach_consensus"}

\* Position in trace of the last call of hypothesize, 0 if none.
LastHypothesize ==
    IF \E i \in 1..Len(trace) : trace[i] = "hypothesize"
    THEN CHOOSE i \in 1..Len(trace) :
            /\ trace[i] = "hypothesize"
            /\ \A j \in (i + 1)..Len(trace) : trace[j] # "hypothesize"
    ELSE 0

\* The session began with hypothesize, called once, and it has returned.
HypothesizeReturned ==
    /\ Len(trace) >= 1
    /\ trace[1] = "hypothesize"
    /\ LastHypothesize = 1
    /\ ~(active = "hypothesize" /\ Len(trace) = 1)
    /\ failedStage # "hypothesize"

\* The tools called after hypothesize, in order.
AfterHypothesize == SubSeq(trace, 2, Len(trace))

Certain == \E i \in 1..Len(hyps) : hyps[i].probability >= CertaintyThreshold

IsTop(d) ==
    /\ \E i \in 1..Len(hyps) : hyps[i] = d
    /\ \A i \in 1..Len(hyps) : hyps[i].probability <= d.probability

\* C1: when hypothesize returns a Diagnosis with probability >= 0.95,
\* request_tests, debate and reach_consensus are never invoked, and the
\* FinalDecision returned has the hypothesis of maximum probability as its
\* action.
C1_ShortCircuit ==
    (HypothesizeReturned /\ Certain) =>
        /\ AfterHypothesize = <<>>
        /\ final # None => IsTop(final.action)

\* C2: when every hypothesis returned has probability < 0.95, a
\* FinalDecision is produced only after request_tests, debate (with its
\* three sub-calls) and reach_consensus were invoked, in that order.
C2_FullWorkup ==
    (/\ HypothesizeReturned
     /\ hyps # <<>>
     /\ ~Certain
     /\ final # None) =>
        AfterHypothesize = <<"request_tests", "debate", "reach_consensus">>

Rank(t) ==
    CASE t = "hypothesize" -> 1
      [] t = "request_tests" -> 2
      [] t = "debate" -> 3
      [] t = "reach_consensus" -> 4

\* C3: the stages only move forward: a stage is invoked only while the
\* session is not terminal, and only if neither it nor a later stage was
\* invoked before.
C3_ForwardOnly ==
    [][trace' # trace =>
         /\ run = "running"
         /\ \A i \in 1..Len(trace) :
               Rank(trace[i]) < Rank(trace'[Len(trace')])]_vars

FullPath == <<"hypothesize", "request_tests", "debate", "reach_consensus">>

\* C4: once a debate sub-call has failed, no DebateResults is constructed,
\* no stage (reach_consensus in particular) is invoked, no FinalDecision is
\* returned and the session does not end successfully.
C4_DebateFailsAsUnit ==
    [][failOrder # <<>> =>
         /\ debateResults' = debateResults
         /\ trace' = trace
         /\ final' = None
         /\ run' # "returned"
         /\ mainpc' # "exit_ok"]_vars

C4_Witness ==
    /\ mainpc = "exit_err"
    /\ failedStage = "debate"
    /\ failOrder = <<"stewardship">>
    /\ Len(doneOrder) = 2
    /\ debateResults = None
    /\ final = None

\* C5: a failure in a stage is re-raised out of the run; after a failure of
\* a stage or of a debate sub-call no stage is invoked (the failed one
\* included), and no FinalDecision is produced.
C5_FailFast ==
    [][/\ failedStage' \in Tools => (run' = "raised" /\ final' = None)
       /\ (failedStage \in Tools \/ failOrder # <<>>) =>
             /\ trace' = trace
             /\ final' = None
             /\ run' # "returned"
             /\ mainpc' # "exit_ok"]_vars

C5_Witness ==
    /\ mainpc = "exit_err"
    /\ failedStage = "reach_consensus"
    /\ trace = FullPath
    /\ final = None

\* C6: a FinalDecision returned after the full sequence of stages has as its
\* action the value reach_consensus returned.
C6_ConsensusVerbatim ==
    (trace = FullPath /\ consensus # None /\ final # None) =>
        final.action = consensus

\* C7: whatever the order of completion, the DebateResults has the
\* challenger's output as challenger_critique, the stewardship's as
\* stewardship_advice and the checklist's as quality_checks.
C7_PositionalOrder ==
    (/\ debateResults # None
     /\ active # "debate"
     /\ \A s \in SubNames : sub[s] = "ok") =>
        /\ debateResults.challenger_critique = subOut["challenger"]
        /\ debateResults.stewardship_advice = subOut["stewardship"]
        /\ debateResults.quality_checks = subOut["checklist"]

C7_Witness ==
    /\ debateResults # None
    /\ active # "debate"
    /\ doneOrder = <<"checklist", "stewardship", "challenger">>
    /\ debateResults.challenger_critique = subOut["challenger"]

\* C8: a DebateResults is constructed, and reach_consensus begins, only
\* after the three sub-calls of a debate have all completed successfully.
C8_JoinBeforeConsensus ==
    [][/\ debateResults' # debateResults => \A s \in SubNames : sub[s] = "ok"
       /\ (trace' # trace /\ trace'[Len(trace')] = "reach_consensus") =>
             /\ \E i \in 1..Len(trace) : trace[i] = "debate"
             /\ \A s \in SubNames : sub[s] = "ok"]_vars

IsDiagnosisValue(a) ==
    /\ a.type = "Diagnosis"
    /\ DOMAIN a = {"type", "condition", "probability"}

IsTestRequestValue(a) ==
    /\ a.type = "TestRequest"
    /\ DOMAIN a = {"type", "test_name"}

\* C9: the action of every FinalDecision is a Diagnosis or a TestRequest,
\* not both and not absent.
C9_ExactlyOne ==
    final # None =>
        /\ IsDiagnosisValue(final.action) \/ IsTestRequestValue(final.action)
        /\ ~(IsDiagnosisValue(final.action) /\ IsTestRequestValue(final.action))

C9_Witness ==
    /\ final # None
    /\ trace = FullPath
    /\ IsTestRequestValue(final.action)
    /\ final.action = consensus

\* C10 as stated: when hypothesize returns an empty list, no FinalDecision
\* is produced and the session does not continue to another stage.
C10_EmptyIsError ==
    (HypothesizeReturned /\ hyps = <<>>) =>
        /\ final = None
        /\ run # "returned"
        /\ AfterHypothesize = <<>>

\* C10 amended: an empty list is a result hypothesize accepts: whenever
\* the hypothesis agent is awaited it may return the empty list, and then
\* the stage returns it, nothing is raised and the session stays running;
\* after such a return no stage has failed.
C10_EmptyAccepted ==
    /\ (mainpc = "await" /\ active = "hypothesize" /\ stpc = "agent") =>
          ENABLED (/\ HypothesizeAgent(<<>>)
                   /\ hyps' = <<>>
                   /\ run' = "running"
                   /\ failedStage' = "none")
    /\ (HypothesizeReturned /\ hyps = <<>> /\ AfterHypothesize = <<>>) =>
          failedStage \notin Tools

C10_Witness ==
    /\ HypothesizeReturned
    /\ hyps = <<>>
    /\ final # None
    /\ mainpc = "exit_ok"

\* The greatest probability among the hypotheses (hyps not empty).
TopProbability ==
    CHOOSE p \in {hyps[i].probability : i \in 1..Len(hyps)} :
        \A i \in 1..Len(hyps) : hyps[i].probability <= p

\* C11: the certainty test is >= 0.95: a session whose greatest hypothesis
\* probability is exactly 0.95 invokes no further stage, and a session
\* whose greatest probability is below 0.95 returns no FinalDecision
\* without invoking a further stage.
C11_ThresholdInclusive ==
    (HypothesizeReturned /\ hyps # <<>>) =>
        /\ TopProbability = CertaintyThreshold => AfterHypothesize = <<>>
        /\ (TopProbability < CertaintyThreshold /\ final # None) =>
              AfterHypothesize # <<>>

\* C14: when hypothesize returns an empty list the run does not fail on
\* it, takes no short-circuit (no FinalDecision straight after
\* hypothesize) and the next stage invoked is request_tests.
C14_EmptyContinues ==
    (HypothesizeReturned /\ hyps = <<>>) =>
        /\ final # None => AfterHypothesize # <<>>
        /\ AfterHypothesize # <<>> => AfterHypothesize[1] = "request_tests"

Terminal == mainpc # "await"

InRange(d) ==
    d.type = "Diagnosis" =>
        (d.probability >= MinProbability /\ d.probability <= MaxProbability)

\* C13: every Diagnosis in a stage output, in the arguments handed on to
\* debate or in the FinalDecision has a probability within [0, 1]; an
\* output that fails validation ends the run with no FinalDecision.
C13_ValidProbability ==
    /\ \A i \in 1..Len(hyps) : InRange(hyps[i])
    /\ InRange(consensus)
    /\ final # None => InRange(final.action)
    /\ debateArgs # None =>
          \A i \in 1..Len(debateArgs.hypotheses) : InRange(debateArgs.hypotheses[i])
    /\ (failure # None /\ failure.kind = "OutputValidationError") =>
          (run = "raised" /\ final = None)

C13_Witness ==
    /\ failure = Exc("OutputValidationError", "hypothesize",
                     {"probability out of range"})
    /\ mainpc = "exit_err"
    /\ hyps = <<>>
    /\ final = None

\* C15: the exception debate raises is the one of the sub-call that failed
\* first in time, whatever its place among challenger, stewardship,
\* checklist; the outputs of the sub-calls that returned make no
\* DebateResults and no FinalDecision follows.
C15_FirstFailureWins ==
    failedStage = "debate" =>
        /\ failOrder # <<>>
        /\ failure # None
        /\ failure.origin = failOrder[1]
        /\ failure = subErr[failOrder[1]]
        /\ final = None
        /\ Cardinality({i \in 1..Len(trace) : trace[i] = "debate"}) = 1 =>
              debateResults = None

C15_Witness ==
    /\ failedStage = "debate"
    /\ failOrder = <<"checklist", "challenger">>
    /\ sub["stewardship"] = "ok"
    /\ failure.origin = "checklist"

\* C16: a stage or sub-call runs its agent at most once per invocation and
\* only after its prompt was rendered; when rendering fails the agent is
\* not run and the failure raised is the rendering failure.
C16_RenderBeforeAgent ==
    /\ \A u \in Units : agentRuns[u] <= 1 /\ (agentRuns[u] >= 1 => rendered[u])
    /\ \A t \in SimpleTools :
          ((\E i \in 1..Len(trace) : trace[i] = t) /\ active # t /\ ~rendered[t]) =>
              /\ failure = Exc("TemplateError", t, {})
              /\ failedStage = t
              /\ agentRuns[t] = 0
    /\ \A s \in SubNames :
          (sub[s] = "failed" /\ ~rendered[s]) =>
              /\ subErr[s] = Exc("TemplateError", s, {})
              /\ agentRuns[s] = 0

C16_Witness ==
    /\ failure = Exc("TemplateError", "request_tests", {})
    /\ agentRuns["request_tests"] = 0
    /\ rendered["hypothesize"]
    /\ agentRuns["hypothesize"] = 1
    /\ mainpc = "exit_err"

\* The private state of sub-call s changes in this step.
SubChanged(s) ==
    \/ sub'[s] # sub[s]
    \/ subOut'[s] # subOut[s]
    \/ subErr'[s] # subErr[s]
    \/ rendered'[s] # rendered[s]
    \/ agentRuns'[s] # agentRuns[s]

\* C17: while debate runs, the lists it was given and the lists the
\* orchestrator holds stay as they are, a step changes the state of at
\* most one sub-call, and the outputs are combined only when all three
\* sub-calls have returned.
C17_DebateFrame ==
    [][/\ debateArgs # None =>
             \/ debateArgs' = debateArgs
             \/ /\ debateArgs' = None
                /\ \A s \in SubNames : sub[s] = "ok"
                /\ debateResults' = MakeDebateResults(GatherResults)
       /\ active = "debate" => (hyps' = hyps /\ tests' = tests)
       /\ (active = "debate" /\ mainpc' = "await") =>
             Cardinality({s \in SubNames : SubChanged(s)}) <= 1
       /\ debateResults' # debateResults => \A s \in SubNames : sub[s] = "ok"]_vars

C17_Witness ==
    /\ active = "debate"
    /\ \A s \in SubNames : sub[s] = "ok"
    /\ debateArgs # None
    /\ debateArgs.hypotheses = hyps
    /\ debateArgs.test_requests = tests
    /\ hyps # <<>>
    /\ tests # <<>>

\* C18: when the run has failed, main() logs the failure with the elapsed
\* time and ends with the exception; the decision is logged only when the
\* run returned, never together with the failure.
C18_MainReraises ==
    /\ (run = "raised" /\ mainpc # "await") =>
          (mainpc = "exit_err" /\ <<"error", "failed_after">> \in logs)
    /\ mainpc = "exit_err" => run = "raised"
    /\ <<"info", "decision">> \in logs =>
          /\ run = "returned"
          /\ final # None
          /\ mainpc = "exit_ok"
          /\ <<"error", "failed_after">> \notin logs

C18_Witness ==
    /\ mainpc = "exit_err"
    /\ failedStage = "debate"
    /\ <<"error", "failed_after">> \in logs
    /\ <<"info", "decision">> \notin logs

\* C19: debate's failure does not cancel the sibling sub-calls: they are
\* cancelled only when main() ends, a sibling still running after debate
\* raised can take its next step, and that step leaves the failure raised
\* as it is.
C19_SiblingsKeepRunning ==
    /\ [](mainpc = "await" => \A s \in SubNames : sub[s] # "cancelled")
    /\ [](\A s \in SubNames :
            (failedStage = "debate" /\ mainpc = "await"
                 /\ sub[s] \in {"render", "agent"}) => ENABLED SubStep(s))
    /\ [][failedStage = "debate" =>
            /\ failure' = failure
            /\ failedStage' = failedStage
            /\ run' = "raised"
            /\ debateResults' = debateResults
            /\ final' = None]_vars

C19_Witness ==
    /\ failedStage = "debate"
    /\ run = "raised"
    /\ mainpc = "await"
    /\ failOrder = <<"challenger">>
    /\ sub["stewardship"] = "agent"
    /\ doneOrder = <<"checklist">>

====
